---- MODULE Spec2Model ----
(***************************************************************************)
(* "Probably Not": the page script probablyNot.js as a state machine.      *)
(*                                                                         *)
(* The script is single-threaded and event-driven.  Every action below is  *)
(* one run-to-completion task of the event loop: an event handler, a timer *)
(* callback, or the continuation of an async function after an await.      *)
(* The browser, the ml5 library and the user are the environment: they     *)
(* decide which task runs next and what an asynchronous call yields.       *)
(* Timers are abstracted from their durations: the interval callback and   *)
(* the timeout callback may run in any order while they are armed.         *)
(***************************************************************************)
EXTENDS Integers, Sequences, FiniteSets, TLC

\* ------------------------------------------------------------------ bounds
\* Captures (accepted takePicture / uploadPicture calls) in one page lifetime.
MaxCaptures == 2
\* The result selector alone: every list of at most MaxResults labels of at most
\* MaxLabelLen characters, and every one-entry list with a label of at most
\* MaxSoloLen characters.
MaxLabelLen == 1
MaxResults == 4
MaxSoloLen == 4

VARIABLES
  \* ---- script globals (probablyNot.js:2-4)
  video,            \* "undefined" or "videoElement"
  classifier,       \* "undefined" or the handle ml5.imageClassifier resolved with
  isModelLoaded,    \* BOOLEAN
  \* ---- environment and scheduling
  ml5,              \* BOOLEAN: typeof ml5 !== "undefined"
  domLoaded,        \* BOOLEAN: the DOMContentLoaded handler has run
  checkML5,         \* BOOLEAN: the 100 ms interval is armed
  timeoutPending,   \* BOOLEAN: the 10 s timeout is armed
  modelLoad,        \* "idle", "pending", "resolved", "rejected": the ml5.imageClassifier promise
  loadCalls,        \* number of loadModel invocations
  camera,           \* "idle", "pending", "granted", "denied": the getUserMedia promise
  srcObject,        \* BOOLEAN: video.srcObject holds a stream
  caps,             \* capture id -> [st, url, calls]: each Image created by takePicture /
                    \* uploadPicture, and how often classifier.classify was invoked on it
  \* ---- the page (DOM)
  cameraShown,      \* .camera-container displayed
  controlsShown,    \* .controls has class "visible"
  loadingShown,     \* #loading displayed
  loadingText,      \* #loading innerHTML
  errorShown,       \* #errorMessage displayed
  errorText,        \* #errorMessage textContent
  resultShown,      \* #resultContainer displayed
  resultText,       \* the prediction shown in #resultText after "Probably Not a "
  resultImage,      \* #resultImage src
  fileInput,        \* #fileInput value: "" or "selected"
  \* ---- the camera resource: page lifecycle and the video element
  hidden,           \* BOOLEAN: document.hidden
  paused,           \* BOOLEAN: video.paused
  autoplaying,      \* BOOLEAN: the video element still starts by itself once it has data
  unloadRan,        \* BOOLEAN: the beforeunload handler has run
  live,             \* BOOLEAN: a track obtained from getUserMedia is live
  \* ---- history
  viaUi,            \* BOOLEAN: every handler so far was triggered through a control that was displayed
  restarted,        \* BOOLEAN: restartApp ran from the result view and no capture was requested since
  \* ---- the result selector applied to an arbitrary result list
  results,          \* the list handed to the selector
  thirdMostLikely,  \* the raw label it selected
  prediction,       \* the label after clean-up
  selPc             \* "idle", "ready", "done"

globals == <<video, classifier, isModelLoaded>>
env == <<ml5, domLoaded, checkML5, timeoutPending, modelLoad, loadCalls, camera, srcObject, caps>>
banners == <<loadingShown, loadingText, errorShown, errorText>>
views == <<cameraShown, controlsShown, resultShown, resultText, resultImage, fileInput>>
history == <<viaUi, restarted>>
selVars == <<results, thirdMostLikely, prediction, selPc>>
resource == <<hidden, paused, autoplaying, unloadRan, live>>
vars == <<globals, env, banners, views, history, selVars, resource>>

\* ------------------------------------------------------------------ strings
\* A label is a sequence of characters, so that split and trim are computed.
Chars == {"a", ",", " "}
Whitespace == {" ", "\t", "\n"}
Sentinel == <<"m","y","s","t","e","r","i","o","u","s"," ","o","b","j","e","c","t">>

\* String.prototype.split(",")[0]: the text before the first comma.
RECURSIVE splitFirst(_)
splitFirst(s) ==
  IF s = <<>> \/ Head(s) = "," THEN <<>> ELSE <<Head(s)>> \o splitFirst(Tail(s))

RECURSIVE trimStart(_)
trimStart(s) ==
  IF s # <<>> /\ Head(s) \in Whitespace THEN trimStart(Tail(s)) ELSE s

RECURSIVE trimEnd(_)
trimEnd(s) ==
  IF s # <<>> /\ s[Len(s)] \in Whitespace THEN trimEnd(SubSeq(s, 1, Len(s) - 1)) ELSE s

\* String.prototype.trim
trim(s) == trimEnd(trimStart(s))

\* What classifier.classify resolves with: null / undefined, or an array of
\* entries [label |-> ...], best first (the confidence is never read).
Null == [isNull |-> TRUE, list |-> <<>>]
Array(list) == [isNull |-> FALSE, list |-> list]
Entry(l) == [label |-> l]

\* SelectLabel taking the entry at index 1 where the code takes index 2.
SelectLabelSecond(R) ==
  IF ~R.isNull /\ Len(R.list) >= 3 THEN R.list[2].label
  ELSE IF ~R.isNull /\ Len(R.list) > 0 THEN R.list[Len(R.list)].label
  ELSE Sentinel

\* SelectLabel with an empty fallback where the code has the sentinel of line 181.
SelectLabelNoSentinel(R) ==
  IF ~R.isNull /\ Len(R.list) >= 3 THEN R.list[3].label
  ELSE IF ~R.isNull /\ Len(R.list) > 0 THEN R.list[Len(R.list)].label
  ELSE <<>>

\* analyzeImage, lines 171-183: the raw label taken from the classifier's answer R.
SelectLabel(R) ==
  IF ~R.isNull /\ Len(R.list) >= 3 THEN R.list[3].label
  ELSE IF ~R.isNull /\ Len(R.list) > 0 THEN R.list[Len(R.list)].label
  ELSE Sentinel

\* CleanLabel trimming before it cuts at the comma.
CleanLabelTrimFirst(label) == splitFirst(trim(label))

\* analyzeImage, line 186.
CleanLabel(label) == trim(splitFirst(label))

\* ------------------------------------------------------------------ messages
Msg(text) == [text |-> text, reason |-> ""]
NoMessage == Msg("")
MsgLibrary == Msg("Failed to load ML5.js library. Please check your internet connection and refresh the page.")
MsgCamera == Msg("Unable to access camera. Please ensure you have granted camera permissions and try again.")
MsgModel == Msg("Failed to load AI model. Please refresh the page.")
MsgNoCamera == Msg("Camera not available. Please check camera permissions.")
MsgStillLoading == Msg("AI model is still loading. Please wait a moment and try again.")
MsgInvalidFile == Msg("Please select a valid image file.")
\* `Failed to analyze image: ${error.message}. Please try again.`
MsgAnalyze(reason) == [text |-> "Failed to analyze image: ${error.message}. Please try again.", reason |-> reason]
NotLoadedYet == "Model not loaded yet"
HtmlModelLoading == "<div class=\"spinner\"></div>Loading AI model..."
HtmlAnalyzing == "<div class=\"spinner\"></div>Analyzing image with ML5.js..."

\* ------------------------------------------------------------------ inputs
MobileNet == "MobileNet"
\* error.message of a rejection of classifier.classify
Reasons == {"inference failed", "out of memory"}
\* What classifier.classify resolves with in the application runs: the documented
\* shapes (no entry, one, three), null, and labels with nothing before the comma.
ClassifierOutputs ==
  { Null,
    Array(<<>>),
    Array(<< Entry(<<"a">>) >>),
    Array(<< Entry(<<"a", ",", " ", "a">>), Entry(<<"a", "a">>), Entry(<<" ", "a", " ", ",", "a">>) >>),
    Array(<< Entry(<<>>) >>),
    Array(<< Entry(<<"a">>), Entry(<<",", "a">>) >>) }
\* The file picked in #fileInput: none (dialog cancelled), or its declared type.
NoFile == "none"
Files == {NoFile, "image/png", "text/plain"}
startsWithImage(type) == type = "image/png"
DataUrl == "data:image/jpeg"
BlobUrl == "blob:"
CapIds == 1..MaxCaptures
NoCap == [st |-> "unused", url |-> "", calls |-> 0]

\* ------------------------------------------------------------------ DOM helpers
showError(message) == errorShown' = TRUE /\ errorText' = message
hideError == errorShown' = FALSE /\ errorText' = errorText
showLoading == loadingShown' = TRUE /\ loadingText' = loadingText
hideLoading == loadingShown' = FALSE /\ loadingText' = loadingText
showModelLoading == loadingShown' = TRUE /\ loadingText' = HtmlModelLoading
hideModelLoading == loadingShown' = FALSE /\ loadingText' = HtmlAnalyzing
showControlButtons == controlsShown' = TRUE
hideControlButtons == controlsShown' = FALSE

\* ------------------------------------------------------------------ initial state
\* Lines 2-4: the script's globals before any event.
InitGlobals ==
  /\ video = "undefined"
  /\ classifier = "undefined"
  /\ isModelLoaded = FALSE

\* Nothing has been scheduled; the library script may or may not have run yet.
InitEnv ==
  /\ ml5 = FALSE
  /\ domLoaded = FALSE
  /\ checkML5 = FALSE
  /\ timeoutPending = FALSE
  /\ modelLoad = "idle"
  /\ loadCalls = 0
  /\ camera = "idle"
  /\ srcObject = FALSE
  /\ caps = [i \in CapIds |-> NoCap]

\* The page as its markup and stylesheet present it: the capture view is shown,
\* the controls lack the "visible" class, both banners and the result view are
\* not displayed, the loading banner holds the analyzing text.
InitPage ==
  /\ cameraShown = TRUE
  /\ controlsShown = FALSE
  /\ loadingShown = FALSE
  /\ loadingText = HtmlAnalyzing
  /\ errorShown = FALSE
  /\ errorText = NoMessage
  /\ resultShown = FALSE
  /\ resultText = <<>>
  /\ resultImage = ""
  /\ fileInput = ""

InitHistory == viaUi = TRUE /\ restarted = FALSE

\* The page is loaded in the foreground; the video element has no data yet.
InitResource ==
  /\ hidden = FALSE
  /\ paused = TRUE
  /\ autoplaying = TRUE
  /\ unloadRan = FALSE
  /\ live = FALSE

AppInit == InitGlobals /\ InitEnv /\ InitPage /\ InitHistory /\ InitResource

SelIdle ==
  /\ results = Null
  /\ thirdMostLikely = <<>>
  /\ prediction = <<>>
  /\ selPc = "idle"

Init == AppInit /\ SelIdle

\* ------------------------------------------------------------------ model loading
\* loadModel without the await of line 72: the pending promise is stored and
\* the model is marked ready at once.
loadModelNoAwait ==
  /\ showModelLoading
  /\ modelLoad' = "pending"
  /\ loadCalls' = loadCalls + 1
  /\ classifier' = "Promise"
  /\ isModelLoaded' = TRUE
  /\ showControlButtons

\* loadModel up to its await (lines 66-72): the banner is shown and
\* ml5.imageClassifier("MobileNet") is called; nothing is assigned yet.
loadModel ==
  /\ showModelLoading
  /\ modelLoad' = "pending"
  /\ loadCalls' = loadCalls + 1
  /\ UNCHANGED <<classifier, isModelLoaded, controlsShown>>

\* The library's script has run: the global ml5 is defined from now on.
Ml5Arrives ==
  /\ ~ml5
  /\ ml5' = TRUE
  /\ UNCHANGED <<globals, domLoaded, checkML5, timeoutPending, modelLoad, loadCalls, camera,
                 srcObject, caps, banners, views, history, selVars, resource>>

\* The DOMContentLoaded handler (lines 7-33) with initializeCamera up to its
\* await (lines 38-48).
DOMContentLoaded ==
  /\ ~domLoaded
  /\ domLoaded' = TRUE
  /\ video' = "videoElement"
  /\ camera' = "pending"
  /\ IF ml5
       THEN loadModel /\ UNCHANGED <<checkML5, timeoutPending>>
       ELSE /\ checkML5' = TRUE
            /\ timeoutPending' = TRUE
            /\ UNCHANGED <<classifier, isModelLoaded, controlsShown, modelLoad, loadCalls,
                           loadingShown, loadingText>>
  /\ UNCHANGED <<ml5, srcObject, caps, errorShown, errorText, cameraShown, resultShown,
                 resultText, resultImage, fileInput, history, selVars, resource>>

\* checkML5Tick without the clearInterval of line 18.
checkML5TickNoClear ==
  /\ checkML5
  /\ IF ml5
       THEN UNCHANGED checkML5 /\ loadModel
       ELSE UNCHANGED <<checkML5, classifier, isModelLoaded, controlsShown, modelLoad,
                        loadCalls, loadingShown, loadingText>>
  /\ UNCHANGED <<video, ml5, domLoaded, timeoutPending, camera, srcObject, caps, errorShown,
                 errorText, cameraShown, resultShown, resultText, resultImage, fileInput,
                 history, selVars, resource>>

\* One run of the interval callback (lines 15-21).
checkML5Tick ==
  /\ checkML5
  /\ IF ml5
       THEN checkML5' = FALSE /\ loadModel
       ELSE UNCHANGED <<checkML5, classifier, isModelLoaded, controlsShown, modelLoad,
                        loadCalls, loadingShown, loadingText>>
  /\ UNCHANGED <<video, ml5, domLoaded, timeoutPending, camera, srcObject, caps, errorShown,
                 errorText, cameraShown, resultShown, resultText, resultImage, fileInput,
                 history, selVars, resource>>

\* libraryTimeout without the clearInterval of line 26.
libraryTimeoutNoClear ==
  /\ timeoutPending
  /\ timeoutPending' = FALSE
  /\ IF ~ml5
       THEN UNCHANGED checkML5 /\ showError(MsgLibrary)
       ELSE UNCHANGED <<checkML5, errorShown, errorText>>
  /\ UNCHANGED <<globals, ml5, domLoaded, modelLoad, loadCalls, camera, srcObject, caps,
                 loadingShown, loadingText, views, history, selVars, resource>>

\* The timeout callback (lines 24-31).
libraryTimeout ==
  /\ timeoutPending
  /\ timeoutPending' = FALSE
  /\ IF ~ml5
       THEN checkML5' = FALSE /\ showError(MsgLibrary)
       ELSE UNCHANGED <<checkML5, errorShown, errorText>>
  /\ UNCHANGED <<globals, ml5, domLoaded, modelLoad, loadCalls, camera, srcObject, caps,
                 loadingShown, loadingText, views, history, selVars, resource>>

\* loadModel after its await, the promise fulfilled (lines 72-78).
loadModelResolved ==
  /\ modelLoad = "pending"
  /\ modelLoad' = "resolved"
  /\ classifier' = MobileNet
  /\ isModelLoaded' = TRUE
  /\ showControlButtons
  /\ hideModelLoading
  /\ UNCHANGED <<video, ml5, domLoaded, checkML5, timeoutPending, loadCalls, camera, srcObject,
                 caps, errorShown, errorText, cameraShown, resultShown, resultText,
                 resultImage, fileInput, history, selVars, resource>>

\* loadModel's catch without hideModelLoading (line 82).
loadModelRejectedNoHide ==
  /\ modelLoad = "pending"
  /\ modelLoad' = "rejected"
  /\ showError(MsgModel)
  /\ UNCHANGED <<globals, ml5, domLoaded, checkML5, timeoutPending, loadCalls, camera,
                 srcObject, caps, views, history, selVars, resource, loadingShown, loadingText>>

\* loadModel after its await, the promise rejected (lines 79-83).
loadModelRejected ==
  /\ modelLoad = "pending"
  /\ modelLoad' = "rejected"
  /\ showError(MsgModel)
  /\ hideModelLoading
  /\ UNCHANGED <<globals, ml5, domLoaded, checkML5, timeoutPending, loadCalls, camera,
                 srcObject, caps, views, history, selVars, resource>>

\* ------------------------------------------------------------------ camera
\* The video element of the page starts the live preview by itself when a
\* stream is bound to it, unless play() or pause() was called on it before.
autoplay == paused' = IF autoplaying THEN FALSE ELSE paused

\* initializeCamera after its await, access granted (lines 49-54).
cameraGranted ==
  /\ camera = "pending"
  /\ camera' = "granted"
  /\ srcObject' = TRUE
  /\ live' = TRUE
  /\ autoplay
  /\ UNCHANGED <<globals, ml5, domLoaded, checkML5, timeoutPending, modelLoad, loadCalls, caps,
                 banners, views, history, selVars, hidden, autoplaying, unloadRan>>

\* initializeCamera after its await, access refused or no device (lines 55-60).
cameraDenied ==
  /\ camera = "pending"
  /\ camera' = "denied"
  /\ showError(MsgCamera)
  /\ UNCHANGED <<globals, ml5, domLoaded, checkML5, timeoutPending, modelLoad, loadCalls,
                 srcObject, caps, loadingShown, loadingText, views, history, selVars, resource>>

\* ------------------------------------------------------------------ capture pipeline
HasFreeCap == \E i \in CapIds : caps[i].st = "unused"
FreeCap == CHOOSE i \in CapIds : caps[i].st = "unused" /\ \A j \in 1..(i - 1) : caps[j].st # "unused"
\* new Image() with onload set and src assigned: the decode is pending.
newImage(url) == caps' = [caps EXCEPT ![FreeCap] = [st |-> "decoding", url |-> url, calls |-> 0]]
\* classifier.classify(img) is invoked (line 167): the call is pending.
classify(i) == caps' = [caps EXCEPT ![i].st = "classifying", ![i].calls = @ + 1]
setCap(i, st) == caps' = [caps EXCEPT ![i].st = st]

\* takePicture asking for the model before it asks for the stream.
takePictureReadinessFirst ==
  /\ (video # "undefined" /\ srcObject /\ isModelLoaded) => HasFreeCap
  /\ viaUi' = (viaUi /\ controlsShown)
  /\ restarted' = FALSE
  /\ IF video = "undefined"
       THEN UNCHANGED <<caps, errorShown, errorText>>
       ELSE IF ~isModelLoaded
         THEN showError(MsgStillLoading) /\ UNCHANGED caps
         ELSE IF ~srcObject
           THEN showError(MsgNoCamera) /\ UNCHANGED caps
           ELSE newImage(DataUrl) /\ UNCHANGED <<errorShown, errorText>>
  /\ UNCHANGED <<globals, ml5, domLoaded, checkML5, timeoutPending, modelLoad, loadCalls, camera,
                 srcObject, loadingShown, loadingText, views, selVars, resource>>

\* takePicture (lines 97-121), run from the shutter button.  Before
\* DOMContentLoaded the global video is undefined and reading video.srcObject
\* throws: the handler ends there.
takePicture ==
  /\ (video # "undefined" /\ srcObject /\ isModelLoaded) => HasFreeCap
  /\ viaUi' = (viaUi /\ controlsShown)
  /\ restarted' = FALSE
  /\ IF video = "undefined"
       THEN UNCHANGED <<caps, errorShown, errorText>>
       ELSE IF ~srcObject
         THEN showError(MsgNoCamera) /\ UNCHANGED caps
         ELSE IF ~isModelLoaded
           THEN showError(MsgStillLoading) /\ UNCHANGED caps
           ELSE newImage(DataUrl) /\ UNCHANGED <<errorShown, errorText>>
  /\ UNCHANGED <<globals, ml5, domLoaded, checkML5, timeoutPending, modelLoad, loadCalls, camera,
                 srcObject, loadingShown, loadingText, views, selVars, resource>>

\* uploadPicture without the type check of lines 130-133.
uploadPictureAnyType(file) ==
  /\ (file # NoFile /\ isModelLoaded) => HasFreeCap
  /\ viaUi' = (viaUi /\ controlsShown)
  /\ restarted' = FALSE
  /\ fileInput' = IF file = NoFile THEN "" ELSE "selected"
  /\ IF file = NoFile
       THEN UNCHANGED <<caps, errorShown, errorText>>
       ELSE IF ~isModelLoaded
         THEN showError(MsgStillLoading) /\ UNCHANGED caps
         ELSE newImage(BlobUrl) /\ UNCHANGED <<errorShown, errorText>>
  /\ UNCHANGED <<globals, ml5, domLoaded, checkML5, timeoutPending, modelLoad, loadCalls, camera,
                 srcObject, loadingShown, loadingText, cameraShown, controlsShown, resultShown,
                 resultText, resultImage, selVars, resource>>

\* uploadPicture (lines 126-147), run by the change event of #fileInput after
\* the browser has put the user's choice into the input.
uploadPicture(file) ==
  /\ (startsWithImage(file) /\ isModelLoaded) => HasFreeCap
  /\ viaUi' = (viaUi /\ controlsShown)
  /\ restarted' = FALSE
  /\ fileInput' = IF file = NoFile THEN "" ELSE "selected"
  /\ IF file = NoFile
       THEN UNCHANGED <<caps, errorShown, errorText>>
       ELSE IF ~startsWithImage(file)
         THEN showError(MsgInvalidFile) /\ UNCHANGED caps
         ELSE IF ~isModelLoaded
           THEN showError(MsgStillLoading) /\ UNCHANGED caps
           ELSE newImage(BlobUrl) /\ UNCHANGED <<errorShown, errorText>>
  /\ UNCHANGED <<globals, ml5, domLoaded, checkML5, timeoutPending, modelLoad, loadCalls, camera,
                 srcObject, loadingShown, loadingText, cameraShown, controlsShown, resultShown,
                 resultText, resultImage, selVars, resource>>

\* The image cannot be decoded (a file whose content is not the image its
\* type declares).  No onerror handler is set (lines 116-120, 140-146), so no
\* script runs; the canvas's own JPEG always decodes.
imgError(i) ==
  /\ caps[i].st = "decoding"
  /\ caps[i].url = BlobUrl
  /\ setCap(i, "undecoded")
  /\ UNCHANGED <<globals, ml5, domLoaded, checkML5, timeoutPending, modelLoad, loadCalls, camera,
                 srcObject, banners, views, history, selVars, resource>>

\* analyzeImage with an onload that fires again for an image already handed
\* to the classifier (img.src assigned once more).
analyzeImageAgain(i) ==
  /\ caps[i].st \in {"decoding", "classifying"}
  /\ IF ~isModelLoaded \/ classifier = "undefined"
       THEN /\ setCap(i, "refused")
            /\ showError(MsgAnalyze(NotLoadedYet))
            /\ hideLoading
       ELSE /\ classify(i)
            /\ hideError
            /\ showLoading
  /\ UNCHANGED <<globals, ml5, domLoaded, checkML5, timeoutPending, modelLoad, loadCalls, camera,
                 srcObject, views, history, selVars, resource>>

\* img.onload: analyzeImage up to its await (lines 152-167).  When the model
\* is not ready the throw of line 162 is caught at once (lines 189-194).
analyzeImage(i) ==
  /\ caps[i].st = "decoding"
  /\ IF ~isModelLoaded \/ classifier = "undefined"
       THEN /\ setCap(i, "refused")
            /\ showError(MsgAnalyze(NotLoadedYet))
            /\ hideLoading
       ELSE /\ classify(i)
            /\ hideError
            /\ showLoading
  /\ UNCHANGED <<globals, ml5, domLoaded, checkML5, timeoutPending, modelLoad, loadCalls, camera,
                 srcObject, views, history, selVars, resource>>

\* showResult (lines 200-214).
showResult(imageUrl, label) ==
  /\ resultImage' = imageUrl
  /\ resultText' = label
  /\ cameraShown' = FALSE
  /\ hideControlButtons
  /\ resultShown' = TRUE

\* analyzeImage after its await, classify fulfilled with R (lines 167-188, 192-194).
classifyResolved(i, R) ==
  /\ caps[i].st = "classifying"
  /\ setCap(i, "shown")
  /\ showResult(caps[i].url, CleanLabel(SelectLabel(R)))
  /\ hideLoading
  /\ UNCHANGED <<globals, ml5, domLoaded, checkML5, timeoutPending, modelLoad, loadCalls, camera,
                 srcObject, errorShown, errorText, fileInput, history, selVars, resource>>

\* classifyRejected with hideLoading at the end of the try block instead of in
\* a finally block: a rejection skips it.
classifyRejectedNoFinally(i, reason) ==
  /\ caps[i].st = "classifying"
  /\ setCap(i, "rejected")
  /\ showError(MsgAnalyze(reason))
  /\ UNCHANGED <<globals, ml5, domLoaded, checkML5, timeoutPending, modelLoad, loadCalls, camera,
                 srcObject, loadingShown, loadingText, views, history, selVars, resource>>

\* analyzeImage after its await, classify rejected (lines 189-194).
classifyRejected(i, reason) ==
  /\ caps[i].st = "classifying"
  /\ setCap(i, "rejected")
  /\ showError(MsgAnalyze(reason))
  /\ hideLoading
  /\ UNCHANGED <<globals, ml5, domLoaded, checkML5, timeoutPending, modelLoad, loadCalls, camera,
                 srcObject, views, history, selVars, resource>>

\* restartApp without the isModelLoaded check of line 225.
restartAppAlwaysShows ==
  /\ resultShown' = FALSE
  /\ cameraShown' = TRUE
  /\ showControlButtons
  /\ fileInput' = ""
  /\ hideError
  /\ viaUi' = (viaUi /\ resultShown)
  /\ restarted' = (restarted \/ resultShown)
  /\ UNCHANGED <<globals, env, loadingShown, loadingText, resultText, resultImage, selVars, resource>>

\* restartApp (lines 219-234), run from the button of the result view.
restartApp ==
  /\ resultShown' = FALSE
  /\ cameraShown' = TRUE
  /\ IF isModelLoaded THEN showControlButtons ELSE UNCHANGED controlsShown
  /\ fileInput' = ""
  /\ hideError
  /\ viaUi' = (viaUi /\ resultShown)
  /\ restarted' = (restarted \/ resultShown)
  /\ UNCHANGED <<globals, env, loadingShown, loadingText, resultText, resultImage, selVars, resource>>

\* ------------------------------------------------------------------ specification
\* ------------------------------------------------------------------ page lifecycle
\* The beforeunload handler (lines 315-319).  The document outlives it when the
\* navigation that raised the event does not replace the page.
beforeunload ==
  /\ unloadRan' = TRUE
  /\ live' = IF video # "undefined" /\ srcObject THEN FALSE ELSE live
  /\ UNCHANGED <<globals, env, banners, views, history, selVars, hidden, paused, autoplaying>>

\* The visibilitychange handler (lines 324-336); video.pause() and video.play()
\* set video.paused and end the element's starting by itself.
visibilitychange ==
  /\ hidden' = ~hidden
  /\ IF video # "undefined" /\ (IF hidden' THEN ~paused ELSE paused)
       THEN paused' = ~paused /\ autoplaying' = FALSE
       ELSE UNCHANGED <<paused, autoplaying>>
  /\ UNCHANGED <<globals, env, banners, views, history, selVars, unloadRan, live>>

Next ==
  \/ Ml5Arrives
  \/ DOMContentLoaded
  \/ checkML5Tick
  \/ libraryTimeout
  \/ loadModelResolved
  \/ loadModelRejected
  \/ cameraGranted
  \/ cameraDenied
  \/ takePicture
  \/ \E file \in Files : uploadPicture(file)
  \/ \E i \in CapIds : imgError(i)
  \/ \E i \in CapIds : analyzeImage(i)
  \/ \E i \in CapIds, R \in ClassifierOutputs : classifyResolved(i, R)
  \/ \E i \in CapIds, reason \in Reasons : classifyRejected(i, reason)
  \/ restartApp

Spec == Init /\ [][Next]_vars

\* The page script together with the page's lifecycle events.
PageNext ==
  \/ Next
  \/ beforeunload
  \/ visibilitychange

PageSpec == Init /\ [][PageNext]_vars

TypeOK ==
  /\ video \in {"undefined", "videoElement"}
  /\ classifier \in {"undefined", MobileNet}
  /\ isModelLoaded \in BOOLEAN
  /\ modelLoad \in {"idle", "pending", "resolved", "rejected"}
  /\ camera \in {"idle", "pending", "granted", "denied"}
  /\ \A i \in CapIds : caps[i].st \in {"unused", "decoding", "undecoded", "refused", "classifying", "shown", "rejected"}

\* ------------------------------------------------------------------ the result selector alone
\* The answers handed to lines 171-186 of analyzeImage: null, every short list
\* of short labels, every one-entry list with a longer label.
LabelsUpTo(n) == UNION {[1..k -> Chars] : k \in 0..n}
ShortLists == UNION {[1..k -> {Entry(x) : x \in LabelsUpTo(MaxLabelLen)}] : k \in 0..MaxResults}
SoloLists == {<<Entry(x)>> : x \in LabelsUpTo(MaxSoloLen)}
ResultLists == {Null} \cup {Array(l) : l \in ShortLists \cup SoloLists}

SelInit ==
  /\ AppInit
  /\ results \in ResultLists
  /\ thirdMostLikely = <<>>
  /\ prediction = <<>>
  /\ selPc = "ready"

\* Lines 171-183.
selectResult ==
  /\ selPc = "ready"
  /\ thirdMostLikely' = SelectLabel(results)
  /\ selPc' = "selected"
  /\ UNCHANGED <<globals, env, banners, views, history, resource, results, prediction>>

\* Line 186.
cleanLabel ==
  /\ selPc = "selected"
  /\ prediction' = CleanLabel(thirdMostLikely)
  /\ selPc' = "cleaned"
  /\ UNCHANGED <<globals, env, banners, views, history, resource, results, thirdMostLikely>>

SelNext == selectResult \/ cleanLabel

SelSpec == SelInit /\ [][SelNext]_vars

\* ------------------------------------------------------------------ the views of the page
ReadyView == ~resultShown /\ cameraShown /\ controlsShown
InitializingView == ~resultShown /\ cameraShown /\ ~controlsShown
InFlight == {i \in CapIds : caps[i].st = "classifying"}
\* A step in which classifier.classify is invoked for capture i.
ClassifyCalled(i) == caps[i].st # "classifying" /\ caps'[i].st = "classifying"

\* ------------------------------------------------------------------ claims

\* C1: classifier.classify is invoked only in a state where the model has been
\* marked ready: isModelLoaded is true and classifier holds the handle the
\* model load resolved with.
C1_ClassifyOnlyWhenReady ==
  [][\A i \in CapIds : ClassifyCalled(i) => (isModelLoaded /\ classifier = MobileNet)]_vars

\* The classification of a camera frame is in flight.
C1_Witness == \E i \in CapIds : caps[i].st = "classifying" /\ caps[i].url = DataUrl

\* C2: at most one classification call is in flight at any time, in runs where
\* every handler was triggered through a control that was displayed.
C2_AtMostOneInFlight == viaUi => Cardinality(InFlight) <= 1

\* The text before the first comma ends at k; d is seg without the whitespace at its ends.
BeforeFirstComma(raw, k) ==
  /\ k \in 0..Len(raw)
  /\ \A j \in 1..k : raw[j] # ","
  /\ k < Len(raw) => raw[k + 1] = ","
IsTrimOf(seg, d) ==
  \E a \in 0..Len(seg) :
    /\ a + Len(d) <= Len(seg)
    /\ d = SubSeq(seg, a + 1, a + Len(d))
    /\ \A j \in 1..a : seg[j] \in Whitespace
    /\ \A j \in (a + Len(d) + 1)..Len(seg) : seg[j] \in Whitespace
    /\ Len(d) > 0 => (d[1] \notin Whitespace /\ d[Len(d)] \notin Whitespace)
IsCutAndTrimmed(raw, d) ==
  \E k \in 0..Len(raw) : BeforeFirstComma(raw, k) /\ IsTrimOf(SubSeq(raw, 1, k), d)

\* C3: the raw label is the third entry's label for three or more entries, the
\* last entry's label for one or two, the sentinel for none; the displayed
\* label is the raw label's text before its first comma, without the
\* whitespace at both ends.
C3_SelectedLabel ==
  /\ (selPc \in {"selected", "cleaned"} /\ ~results.isNull) =>
       LET n == Len(results.list) IN
         /\ n >= 3 => thirdMostLikely = results.list[3].label
         /\ n \in {1, 2} => thirdMostLikely = results.list[n].label
         /\ n = 0 => thirdMostLikely = Sentinel
  /\ selPc = "cleaned" => IsCutAndTrimmed(thirdMostLikely, prediction)

\* Four entries, the third unlike its neighbours, with a comma and a space.
C3_Witness ==
  /\ selPc = "cleaned"
  /\ ~results.isNull
  /\ Len(results.list) = 4
  /\ results.list[3].label = <<",">>
  /\ results.list[2].label = <<"a">>
  /\ results.list[4].label = <<" ">>

\* C4: the label shown in the result view is never the empty string.
C4_DisplayLabelNotEmpty == resultShown => resultText # <<>>

\* The timeout has fired with the library absent: nothing is armed, nothing was loaded.
TimedOut == domLoaded /\ ~timeoutPending /\ ~checkML5 /\ loadCalls = 0

\* C5: when the timeout fires with the library still absent, polling stops and
\* the banner shows the library message; from then on no model load is ever
\* started and isModelLoaded stays false, whatever arrives later.
C5_TimeoutIsTerminal ==
  [][ /\ (timeoutPending /\ ~timeoutPending' /\ ~ml5) =>
           (~checkML5' /\ errorShown' /\ errorText' = MsgLibrary /\ TimedOut')
      /\ TimedOut => (TimedOut' /\ ~isModelLoaded' /\ modelLoad' = "idle" /\ ~controlsShown') ]_vars

\* The library arrived after the timeout had fired.
C5_Witness == TimedOut /\ ml5 /\ ~isModelLoaded /\ errorText = MsgLibrary

\* C6: loadModel is invoked at most once.
C6_LoadModelAtMostOnce == loadCalls <= 1

\* A load started by the interval callback has failed and the timeout has fired since.
C6_Witness == loadCalls = 1 /\ modelLoad = "rejected" /\ ~timeoutPending /\ ~checkML5 /\ errorText = MsgModel

\* The files uploadPicture refuses for their type.
NonImages == {f \in Files : f # NoFile /\ ~startsWithImage(f)}

\* C7: uploadPicture with a file whose type is not an image shows the
\* invalid-file message and changes nothing else: no image, no classification,
\* the same isModelLoaded, capture view, controls, loading banner and result
\* view; a Ready view stays Ready.
C7_NonImageUploadOnlyShowsError ==
  [][\A f \in NonImages : uploadPicture(f) =>
       /\ errorShown' /\ errorText' = MsgInvalidFile
       /\ UNCHANGED <<globals, env, loadingShown, loadingText, cameraShown, controlsShown,
                      resultShown, resultText, resultImage>>
       /\ ReadyView => ReadyView']_vars

\* The invalid-file message over a Ready view with the camera bound.
C7_Witness ==
  /\ errorShown /\ errorText = MsgInvalidFile
  /\ ReadyView /\ isModelLoaded /\ srcObject /\ fileInput = "selected"

\* C8: after restartApp ran from the result view, and until a capture is
\* requested, the page shows Ready when the model is loaded and Initializing
\* when it is not (in runs where every handler was triggered through a
\* control that was displayed).
C8_RestartStaysReady ==
  (viaUi /\ restarted) => IF isModelLoaded THEN ReadyView ELSE InitializingView

\* A step in which an asynchronous stage fails.
StageFails ==
  \/ camera = "pending" /\ camera' = "denied"
  \/ timeoutPending /\ ~timeoutPending' /\ ~ml5
  \/ modelLoad = "pending" /\ modelLoad' = "rejected"
  \/ \E i \in CapIds : caps[i].st = "decoding" /\ caps'[i].st = "undecoded"
  \/ \E i \in CapIds : caps[i].st = "classifying" /\ caps'[i].st = "rejected"

\* C9: every failure of an asynchronous stage puts a message in the error banner.
C9_EveryFailureShown ==
  [][StageFails => (errorShown' /\ errorText' # NoMessage)]_vars

EmptyOutputs == {R \in ClassifierOutputs : R.isNull \/ R.list = <<>>}

\* C11 as stated: when classify resolves with an empty or null answer, the
\* error banner is shown and the result view is not.
C11_EmptyAnswerIsFailure ==
  [][\A i \in CapIds, R \in EmptyOutputs : classifyResolved(i, R) =>
       (errorShown' /\ ~resultShown')]_vars

\* C11 as the code has it: when classify resolves with an empty or null
\* answer, the result view is shown with the sentinel label, the loading
\* banner is hidden, and the error banner is left as it was.
C11_EmptyAnswerShowsSentinel ==
  [][\A i \in CapIds, R \in EmptyOutputs : classifyResolved(i, R) =>
       /\ resultShown' /\ resultText' = Sentinel
       /\ ~cameraShown' /\ ~controlsShown' /\ ~loadingShown'
       /\ UNCHANGED <<errorShown, errorText>>]_vars

\* The sentinel is on display and no error is.
C11_Witness == resultShown /\ resultText = Sentinel /\ ~errorShown

\* C14: while a classification is in flight the controls are not displayed
\* and the loading banner is (in runs where every handler was triggered
\* through a control that was displayed).
C14_ClassifyingView == (viaUi /\ InFlight # {}) => (~controlsShown /\ loadingShown)

\* C15: whenever the result view is displayed, the capture view, the controls
\* and the loading banner are not (in runs where every handler was triggered
\* through a control that was displayed).
C15_ResultViewAlone == (viaUi /\ resultShown) => (~cameraShown /\ ~controlsShown /\ ~loadingShown)

\* C16: the controls are displayed only if the model is ready; they are not
\* displayed after a library timeout or a failed model load.
C16_ControlsOnlyWhenReady ==
  /\ controlsShown => isModelLoaded
  /\ (TimedOut \/ modelLoad = "rejected") => ~controlsShown

\* The controls are displayed again by restartApp, the model being loaded.
C16_Witness == controlsShown /\ restarted /\ isModelLoaded /\ ~resultShown

\* The captures classifier.classify was invoked on.
Classified == {i \in CapIds : caps[i].st \in {"classifying", "shown", "rejected"}}

\* C17 as stated: every accepted capture leads to exactly one invocation of
\* classifier.classify; so a capture that is no longer waiting for its image
\* has had its one invocation.
C17_OneClassifyPerCapture ==
  \A i \in CapIds : caps[i].st \notin {"unused", "decoding"} => caps[i].calls = 1

\* C17 as the code has it: no capture ever has more than one invocation, a
\* capture whose image has decoded (img.onload ran) has exactly one, and a
\* capture whose image is still decoding or could not be decoded has none.
C17_OneClassifyPerDecodedCapture ==
  \A i \in CapIds :
    /\ caps[i].calls <= 1
    /\ caps[i].calls = IF i \in Classified THEN 1 ELSE 0
    /\ caps[i].st \in {"unused", "decoding", "undecoded"} => caps[i].calls = 0

\* One capture was classified and shown, another could not be decoded.
C17_Witness ==
  \E i, j \in CapIds :
    /\ caps[i].st = "shown" /\ caps[i].calls = 1
    /\ caps[j].st = "undecoded" /\ caps[j].calls = 0

\* C18: label post-processing (the text up to the first comma, trimmed) is
\* idempotent: the label the selector has cleaned is what lines 185-186 give
\* for the raw label, and cleaning it once more gives the same string.
C18_CleanLabelIdempotent ==
  selPc = "cleaned" =>
    /\ prediction = CleanLabel(thirdMostLikely)
    /\ CleanLabel(prediction) = prediction

\* A raw label with blanks around its first part and a comma was cleaned.
C18_Witness ==
  /\ selPc = "cleaned"
  /\ thirdMostLikely = <<" ", "a", " ", ",">>
  /\ prediction = <<"a">>

\* C19: takePicture without a stream bound to the video shows the
\* camera-unavailable error and creates no capture, whether or not the model
\* is ready (the stream is asked for first); the file upload still leads to
\* the result view.
C19_NoStreamNoCapture ==
  [][(takePicture /\ video # "undefined" /\ ~srcObject) =>
       /\ errorShown' /\ errorText' = MsgNoCamera
       /\ UNCHANGED <<caps, loadingShown, resultShown>>]_vars

\* The camera was denied, Take Picture was refused for it, and an uploaded
\* image was classified and is shown.
C19_Witness ==
  /\ viaUi /\ camera = "denied" /\ ~srcObject
  /\ errorShown /\ errorText = MsgNoCamera
  /\ resultShown /\ resultImage = BlobUrl
  /\ \A i \in CapIds : caps[i].url # DataUrl

\* Neither the model load nor a classification is in flight.
NothingInFlight == modelLoad # "pending" /\ InFlight = {}
\* A step that completes loadModel or analyzeImage.
Completes ==
  \/ modelLoad = "pending" /\ modelLoad' # "pending"
  \/ \E i \in CapIds : caps[i].st \in {"decoding", "classifying"}
                        /\ caps'[i].st \in {"refused", "shown", "rejected"}

\* C20: when neither the model load nor a classification is in flight the
\* loading banner is hidden, and every step that completes loadModel or
\* analyzeImage, well or badly, leaves it hidden.
C20_LoadingOnlyWhileInFlight ==
  /\ [](NothingInFlight => ~loadingShown)
  /\ [][Completes => ~loadingShown']_vars

\* The model load succeeded, a classification failed, nothing is in flight.
C20_Witness ==
  /\ modelLoad = "resolved" /\ NothingInFlight /\ ~loadingShown
  /\ \E i \in CapIds : caps[i].st = "rejected"

\* The video shows the live stream.
Playing == srcObject /\ ~paused

\* C12: once the beforeunload handler has run, no track obtained from
\* getUserMedia is live, whether the camera request resolved before the event
\* or after it.
C12_NoLiveTrackAfterUnload == unloadRan => ~live

\* C13: the video is never playing while the document is hidden.
C13_NeverPlayingWhileHidden == ~(hidden /\ Playing)

====
